---- MODULE Spec2Model ----
(***************************************************************************)
(* Fiat-Shamir transcript (src/src/transcript.rs) and proof container      *)
(* persistence (src/jolt-sdk/src/host_utils.rs).                           *)
(*                                                                         *)
(* Transcript part.  A merlin Transcript is a STROBE-128 state; what the   *)
(* code controls is the stream of STROBE operations fed to it, so the      *)
(* state of a transcript is modelled by that stream (a sequence of         *)
(* operations, each a flag and the bytes absorbed under it).  The bytes a  *)
(* squeeze returns are a function of the stream and nothing else; which    *)
(* function is not fixed by this code, so it is an oracle: the first       *)
(* squeeze from a stream chooses the bytes, every later squeeze from an    *)
(* equal stream gets the same bytes.                                       *)
(*                                                                         *)
(* A prover drives one Transcript with arbitrary calls; a verifier drives  *)
(* a second, independently constructed Transcript by replaying the         *)
(* prover's calls, faithfully or with one variation.                       *)
(***************************************************************************)
EXTENDS Integers, Sequences, FiniteSets, TLC

VARIABLES
  calls,    \* the calls the prover has made, in order
  pres,     \* the result of each prover call
  vres,     \* the result of each call the verifier has replayed
  tr,       \* tr[i]: the STROBE operation stream of instance i
  aborted,  \* aborted[i]: instance i's run has panicked
  oracle,   \* the squeezes made so far: {[s |-> stream, out |-> bytes]}
  vpc,      \* how many of the prover's calls the verifier has replayed
  dev,      \* the variation the verifier made, and at which call
  vsub,     \* challenges collected while replaying a vector call one by one
  file,     \* the file at the path: whether it exists, and its bytes
  wr,       \* wr[w]: caller w's container and its place in save_to_file
  flog      \* the container calls that have returned, with their results

tvars == <<calls, pres, vres, tr, aborted, oracle, vpc, dev, vsub>>
fvars == <<file, wr, flog>>
vars == <<calls, pres, vres, tr, aborted, oracle, vpc, dev, vsub, file, wr, flog>>

----------------------------------------------------------------------------
(* Bounds *)

\* the scalars, points and names a run absorbs or squeezes, all calls together
MaxWork == 2
\* the items of each field of a proof container
MaxLen == 1
\* the calls made on a proof container
MaxFileOps == 2

----------------------------------------------------------------------------
(* Byte strings *)

Zeros(n) == [i \in 1..n |-> 0]

\* merlin encodes a length as a little-endian u32
LE32(n) ==
  <<n % 256, (n \div 256) % 256, (n \div 65536) % 256, (n \div 16777216) % 256>>

PROTOCOL_NAME_LABEL ==
  <<112, 114, 111, 116, 111, 99, 111, 108, 45, 110, 97, 109, 101>>
BEGIN_APPEND_VECTOR ==
  <<98, 101, 103, 105, 110, 95, 97, 112, 112, 101, 110, 100, 95, 118, 101, 99,
    116, 111, 114>>
END_APPEND_VECTOR ==
  <<101, 110, 100, 95, 97, 112, 112, 101, 110, 100, 95, 118, 101, 99, 116, 111,
    114>>

\* b"x" and b"c"
Labels == {<<120>>, <<99>>}
\* b"tp"
ProtocolNames == {<<116, 112>>}

----------------------------------------------------------------------------
(* Scalar and GroupElement: the field and curve types and their canonical  *)
(* encodings.                                                              *)

\* the order of the scalar field, scaled down
Order == 3
\* the width of a scalar's canonical encoding, scaled down
ScalarBytes == 2

\* a well-formed scalar is reduced; Order stands for a malformed value
WellFormedScalars == 0..(Order - 1)
MalformedScalar == Order
ScalarValues == WellFormedScalars \cup {MalformedScalar}

\* fixed-width little-endian bytes of a reduced value
RECURSIVE LEBytes(_, _)
LEBytes(v, n) ==
  IF n = 0 THEN <<>> ELSE <<v % 256>> \o LEBytes(v \div 256, n - 1)

\* CanonicalSerialize::serialize into a Vec: Ok(bytes) or Err
serialize_scalar(scalar) ==
  IF scalar \in WellFormedScalars
  THEN [ok |-> TRUE, bytes |-> LEBytes(scalar, ScalarBytes)]
  ELSE [ok |-> FALSE, bytes |-> <<>>]

\* x coordinates that lie on the curve, and the sign flag of a compressed point
CurveXs == {2, 5}
SignFlag == 128
GroupElements == {<<x, neg>> : x \in CurveXs, neg \in {0, 1}}
\* a point off the curve stands for a malformed value
MalformedPoint == <<0, 0>>
\* the points a transcript is given: one whose bytes are also the bytes of a
\* scalar, and a malformed one
PointInputs == {<<2, 0>>, MalformedPoint}

\* CanonicalSerialize::serialize of a point, compressed: Ok(bytes) or Err
serialize_point(point) ==
  IF point \in GroupElements
  THEN [ok |-> TRUE, bytes |-> <<point[1], point[2] * SignFlag>>]
  ELSE [ok |-> FALSE, bytes |-> <<>>]

\* Scalar::from_le_bytes_mod_order: the little-endian integer modulo the order
\* (256^k modulo the order)
RECURSIVE Pow256Mod(_)
Pow256Mod(k) ==
  IF k = 0 THEN 1
  ELSE LET h == Pow256Mod(k \div 2) IN
       (h * h * (IF k % 2 = 1 THEN 256 ELSE 1)) % Order

\* (the little-endian integer of buf[lo..hi] modulo the order, by halves, so
\* that no intermediate value outgrows a machine integer)
RECURSIVE LEMod(_, _, _)
LEMod(buf, lo, hi) ==
  IF lo > hi THEN 0
  ELSE IF lo = hi THEN buf[lo] % Order
  ELSE LET mid == (lo + hi) \div 2 IN
       (LEMod(buf, lo, mid)
          + Pow256Mod(mid - lo + 1) * LEMod(buf, mid + 1, hi)) % Order

from_le_bytes_mod_order(buf) == LEMod(buf, 1, Len(buf))

----------------------------------------------------------------------------
(* merlin::Transcript over STROBE *)

StrobeOp(flag, data) == [f |-> flag, d |-> data]

\* append_message: meta-AD(label || LE32(len)), then AD(message)
append_message(t, label, message) ==
  t \o <<StrobeOp("meta_ad", label \o LE32(Len(message))), StrobeOp("ad", message)>>

\* the stream after challenge_bytes: meta-AD(label || LE32(len)), then PRF
challenge_stream(t, label, n) ==
  t \o <<StrobeOp("meta_ad", label \o LE32(n)), StrobeOp("prf", <<>>)>>

\* the buffers a squeeze of n bytes may return
PrfOutputs(n) ==
  { [i \in 1..n |-> IF i = 1 THEN b[1] ELSE IF i = n THEN b[2] ELSE 0] :
      b \in {<<0, 0>>, <<1, 0>>, <<0, 1>>} }

\* a squeeze from stream s may return buf: equal streams squeeze equal bytes
PrfAgrees(orc, s, buf) == \A e \in orc : e.s = s => e.out = buf

\* challenge_bytes(label, dest) with Len(dest) = n: the possible outcomes
challenge_bytes(orc, t, label, n) ==
  LET s == challenge_stream(t, label, n) IN
  { [t |-> s, orc |-> orc \cup {[s |-> s, out |-> buf]}, buf |-> buf] :
      buf \in {b \in PrfOutputs(n) : PrfAgrees(orc, s, b)} }

----------------------------------------------------------------------------
(* impl ProofTranscript for Transcript *)

ChallengeLen == 64

\* (mutant) the name absorbed as a label of its own, not under "protocol-name"
append_protocol_name_as_label(t, protocol_name) ==
  [t |-> append_message(t, protocol_name, <<>>), panic |-> FALSE]

\* (mutant) only the length of the name absorbed
append_protocol_name_blank(t, protocol_name) ==
  [t |-> append_message(t, PROTOCOL_NAME_LABEL, Zeros(Len(protocol_name))), panic |-> FALSE]

append_protocol_name(t, protocol_name) ==
  [t |-> append_message(t, PROTOCOL_NAME_LABEL, protocol_name), panic |-> FALSE]

\* (mutant) the bytes absorbed without the caller's label
append_scalar_unlabelled(t, label, scalar) ==
  LET buf == serialize_scalar(scalar) IN
  IF buf.ok
  THEN [t |-> append_message(t, <<>>, buf.bytes), panic |-> FALSE]
  ELSE [t |-> t, panic |-> TRUE]

\* (mutant) an encoding failure skipped instead of unwrapped
append_scalar_skip(t, label, scalar) ==
  LET buf == serialize_scalar(scalar) IN
  IF buf.ok
  THEN [t |-> append_message(t, label, buf.bytes), panic |-> FALSE]
  ELSE [t |-> t, panic |-> FALSE]

append_scalar(t, label, scalar) ==
  LET buf == serialize_scalar(scalar) IN
  IF buf.ok
  THEN [t |-> append_message(t, label, buf.bytes), panic |-> FALSE]
  ELSE [t |-> t, panic |-> TRUE]

append_point(t, label, point) ==
  LET buf == serialize_point(point) IN
  IF buf.ok
  THEN [t |-> append_message(t, label, buf.bytes), panic |-> FALSE]
  ELSE [t |-> t, panic |-> TRUE]

\* (mutant) the buffer filled from a random source, not from the transcript
challenge_scalar_rng(orc, t, label) ==
  { [t |-> challenge_stream(t, label, ChallengeLen), orc |-> orc, out |-> x] :
      x \in WellFormedScalars }

\* (mutant) a buffer of half the width squeezed
challenge_scalar_narrow(orc, t, label) ==
  { [t |-> r.t, orc |-> r.orc, out |-> from_le_bytes_mod_order(r.buf)] :
      r \in challenge_bytes(orc, t, label, ChallengeLen \div 2) }

\* (mutant) the squeeze made on a copy: the transcript does not advance
challenge_scalar_peek(orc, t, label) ==
  { [t |-> t, orc |-> r.orc, out |-> from_le_bytes_mod_order(r.buf)] :
      r \in challenge_bytes(orc, t, label, ChallengeLen) }

challenge_scalar(orc, t, label) ==
  { [t |-> r.t, orc |-> r.orc, out |-> from_le_bytes_mod_order(r.buf)] :
      r \in challenge_bytes(orc, t, label, ChallengeLen) }

\* (mutant) one squeeze of len * 64 bytes, cut into len scalars
challenge_vector_wide(orc, t, label, len) ==
  IF len = 0 THEN {[t |-> t, orc |-> orc, out |-> <<>>]}
  ELSE { [t |-> r.t, orc |-> r.orc,
          out |-> [i \in 1..len |->
                    from_le_bytes_mod_order(
                      SubSeq(r.buf, ChallengeLen * (i - 1) + 1, ChallengeLen * i))]] :
           r \in challenge_bytes(orc, t, label, len * ChallengeLen) }

\* (mutant) a squeeze made even when no scalar is asked for
challenge_vector_primed(orc, t, label, len) ==
  IF len = 0
  THEN { [t |-> r.t, orc |-> r.orc, out |-> <<>>] : r \in challenge_scalar(orc, t, label) }
  ELSE challenge_vector_wide(orc, t, label, len)

RECURSIVE challenge_vector(_, _, _, _)
challenge_vector(orc, t, label, len) ==
  IF len = 0 THEN {[t |-> t, orc |-> orc, out |-> <<>>]}
  ELSE UNION { { [t |-> r2.t, orc |-> r2.orc, out |-> Append(r1.out, r2.out)] :
                   r2 \in challenge_scalar(r1.orc, r1.t, label) } :
               r1 \in challenge_vector(orc, t, label, len - 1) }

----------------------------------------------------------------------------
(* impl AppendToTranscript for [Scalar] *)

\* the loop over the items: stops at the first item whose append panics
RECURSIVE append_items(_, _, _)
append_items(t, label, items) ==
  IF items = <<>> THEN [t |-> t, panic |-> FALSE]
  ELSE LET r == append_scalar(t, label, Head(items)) IN
       IF r.panic THEN r ELSE append_items(r.t, label, Tail(items))

\* (mutant) the items absorbed without the begin and end delimiters
append_to_transcript_slice_bare(t, label, items) == append_items(t, label, items)

\* (mutant) the items absorbed after the begin delimiter, with no end delimiter
append_to_transcript_slice_open(t, label, items) ==
  append_items(append_message(t, label, BEGIN_APPEND_VECTOR), label, items)

append_to_transcript_slice(t, label, items) ==
  LET r == append_items(append_message(t, label, BEGIN_APPEND_VECTOR), label, items) IN
  IF r.panic THEN r
  ELSE [t |-> append_message(r.t, label, END_APPEND_VECTOR), panic |-> FALSE]

----------------------------------------------------------------------------
(* Calls and their outcomes *)

Inst == {"prover", "verifier"}

Call(op, label, arg) == [op |-> op, label |-> label, arg |-> arg]

Unit == [kind |-> "unit", v |-> <<>>]
Panic == [kind |-> "panic", v |-> <<>>]
ScalarResult(x) == [kind |-> "scalar", v |-> <<x>>]
VectorResult(xs) == [kind |-> "vector", v |-> xs]

\* an absorbing call returns () or panics
Absorbed(orc, r) ==
  {[t |-> r.t, orc |-> orc, res |-> IF r.panic THEN Panic ELSE Unit]}

\* the outcomes of call c on a transcript with stream t
Outcomes(orc, t, c) ==
  CASE c.op = "append_protocol_name" ->
         Absorbed(orc, append_protocol_name(t, c.arg))
    [] c.op = "append_scalar" ->
         Absorbed(orc, append_scalar(t, c.label, c.arg[1]))
    [] c.op = "append_point" ->
         Absorbed(orc, append_point(t, c.label, c.arg))
    [] c.op = "append_slice" ->
         Absorbed(orc, append_to_transcript_slice(t, c.label, c.arg))
    [] c.op = "challenge_scalar" ->
         { [t |-> r.t, orc |-> r.orc, res |-> ScalarResult(r.out)] :
             r \in challenge_scalar(orc, t, c.label) }
    [] c.op = "challenge_vector" ->
         { [t |-> r.t, orc |-> r.orc, res |-> VectorResult(r.out)] :
             r \in challenge_vector(orc, t, c.label, c.arg[1]) }

\* the slices of n items a caller may pass
Slices(n) == [1..n -> WellFormedScalars]

\* what a call counts towards MaxWork: its items, and never nothing
Max(a, b) == IF a > b THEN a ELSE b
Cost(c) ==
  CASE c.op = "append_slice" -> Max(1, Len(c.arg))
    [] c.op = "challenge_vector" -> Max(1, c.arg[1])
    [] OTHER -> 1
RECURSIVE Work(_)
Work(cs) == IF cs = <<>> THEN 0 ELSE Cost(Head(cs)) + Work(Tail(cs))

----------------------------------------------------------------------------
(* The prover: any call on its own transcript *)

NoDev == [kind |-> "none", at |-> 0]

TInit ==
  /\ calls = <<>>
  /\ pres = <<>>
  /\ vres = <<>>
  /\ tr = [i \in Inst |-> <<>>]
  /\ aborted = [i \in Inst |-> FALSE]
  /\ oracle = {}
  /\ vpc = 0
  /\ dev = NoDev
  /\ vsub = <<>>

\* what is left of MaxWork
Budget == MaxWork - Work(calls)

ProverCalls(c) ==
  /\ Cost(c) <= Budget
  /\ ~aborted["prover"]
  /\ \E o \in Outcomes(oracle, tr["prover"], c) :
       /\ calls' = Append(calls, c)
       /\ pres' = Append(pres, o.res)
       /\ tr' = [tr EXCEPT !["prover"] = o.t]
       /\ aborted' = [aborted EXCEPT !["prover"] = (o.res = Panic)]
       /\ oracle' = o.orc
  /\ UNCHANGED <<vres, vpc, dev, vsub, file, wr, flog>>

ProverAppendProtocolName ==
  \E name \in ProtocolNames : ProverCalls(Call("append_protocol_name", <<>>, name))

ProverAppendScalar ==
  \E label \in Labels, scalar \in ScalarValues :
    ProverCalls(Call("append_scalar", label, <<scalar>>))

ProverAppendPoint ==
  \E label \in Labels, point \in PointInputs :
    ProverCalls(Call("append_point", label, point))

ProverAppendSlice ==
  \E label \in Labels, n \in 0..Budget :
    \E items \in Slices(n) : ProverCalls(Call("append_slice", label, items))

ProverChallengeScalar ==
  \E label \in Labels : ProverCalls(Call("challenge_scalar", label, <<>>))

ProverChallengeVector ==
  \E label \in Labels, len \in 0..Budget :
    ProverCalls(Call("challenge_vector", label, <<len>>))

----------------------------------------------------------------------------
(* The verifier: replays the prover's calls on a transcript of its own *)

NextCall == calls[vpc + 1]

CanReplay ==
  /\ vpc < Len(calls)
  /\ ~aborted["verifier"]

\* the verifier makes call c in place of the prover's next call
VerifierCalls(c) ==
  \E o \in Outcomes(oracle, tr["verifier"], c) :
    /\ vres' = Append(vres, o.res)
    /\ tr' = [tr EXCEPT !["verifier"] = o.t]
    /\ aborted' = [aborted EXCEPT !["verifier"] = (o.res = Panic)]
    /\ oracle' = o.orc
    /\ vpc' = vpc + 1
    /\ UNCHANGED <<calls, pres, vsub, file, wr, flog>>

\* the same call as the prover's
VerifierReplay ==
  /\ CanReplay
  /\ vsub = <<>>
  /\ ~(dev.kind = "sequential" /\ dev.at = vpc + 1)
  /\ VerifierCalls(NextCall)
  /\ UNCHANGED dev

\* a challenge_vector(label, n) of the prover replayed as n calls of
\* challenge_scalar(label): one of the n calls
VerifierSeqCall ==
  /\ CanReplay
  /\ NextCall.op = "challenge_vector"
  /\ dev = NoDev \/ dev = [kind |-> "sequential", at |-> vpc + 1]
  /\ Len(vsub) < NextCall.arg[1]
  /\ \E r \in challenge_scalar(oracle, tr["verifier"], NextCall.label) :
       /\ tr' = [tr EXCEPT !["verifier"] = r.t]
       /\ oracle' = r.orc
       /\ vsub' = Append(vsub, r.out)
  /\ dev' = [kind |-> "sequential", at |-> vpc + 1]
  /\ UNCHANGED <<calls, pres, vres, aborted, vpc, file, wr, flog>>

\* ... and the n calls are made: their results, in order, are the vector
VerifierSeqDone ==
  /\ CanReplay
  /\ NextCall.op = "challenge_vector"
  /\ dev = NoDev \/ dev = [kind |-> "sequential", at |-> vpc + 1]
  /\ Len(vsub) = NextCall.arg[1]
  /\ vres' = Append(vres, VectorResult(vsub))
  /\ vsub' = <<>>
  /\ vpc' = vpc + 1
  /\ dev' = [kind |-> "sequential", at |-> vpc + 1]
  /\ UNCHANGED <<calls, pres, tr, aborted, oracle, file, wr, flog>>

\* a slice of the prover replayed item by item through append_scalar, without
\* the vector append
VerifierUnframed ==
  /\ CanReplay
  /\ NextCall.op = "append_slice"
  /\ dev = NoDev
  /\ LET r == append_items(tr["verifier"], NextCall.label, NextCall.arg) IN
       /\ tr' = [tr EXCEPT !["verifier"] = r.t]
       /\ vres' = Append(vres, Unit)
  /\ vpc' = vpc + 1
  /\ dev' = [kind |-> "unframed", at |-> vpc + 1]
  /\ UNCHANGED <<calls, pres, aborted, oracle, vsub, file, wr, flog>>

\* a scalar or point of the prover appended under another label
VerifierRelabel ==
  /\ CanReplay
  /\ NextCall.op \in {"append_scalar", "append_point"}
  /\ dev = NoDev
  /\ \E label \in Labels \ {NextCall.label} :
       VerifierCalls(Call(NextCall.op, label, NextCall.arg))
  /\ dev' = [kind |-> "relabel", at |-> vpc + 1]

TNext ==
  \/ ProverAppendProtocolName
  \/ ProverAppendScalar
  \/ ProverAppendPoint
  \/ ProverAppendSlice
  \/ ProverChallengeScalar
  \/ ProverChallengeVector
  \/ VerifierReplay
  \/ VerifierSeqCall
  \/ VerifierSeqDone
  \/ VerifierUnframed
  \/ VerifierRelabel

----------------------------------------------------------------------------
(* The verifier, again: other ways of departing from the prover's calls *)

IsAbsorb(c) ==
  c.op \in {"append_protocol_name", "append_scalar", "append_point", "append_slice"}

\* a protocol name the prover does not use
OtherProtocolNames == {<<116, 113>>}

\* the prover's next call is made with its label, and it did not panic
CanVary(ops) ==
  /\ CanReplay
  /\ dev = NoDev
  /\ NextCall.op \in ops
  /\ pres[vpc + 1] # Panic

\* a scalar of the prover replaced by another scalar, or its protocol name by
\* another name
VerifierSubstitute ==
  /\ CanVary({"append_scalar", "append_protocol_name"})
  /\ \E arg \in IF NextCall.op = "append_scalar"
               THEN {<<x>> : x \in WellFormedScalars \ {NextCall.arg[1]}}
               ELSE OtherProtocolNames :
       VerifierCalls(Call(NextCall.op, NextCall.label, arg))
  /\ dev' = [kind |-> "substitute", at |-> vpc + 1]

\* the prover's next two calls made in the other order
VerifierSwapsNext(kind) ==
  LET c1 == calls[vpc + 1]
      c2 == calls[vpc + 2]
  IN
  /\ pres[vpc + 2] # Panic
  /\ \E o1 \in Outcomes(oracle, tr["verifier"], c2) :
       \E o2 \in Outcomes(o1.orc, o1.t, c1) :
         /\ tr' = [tr EXCEPT !["verifier"] = o2.t]
         /\ oracle' = o2.orc
         /\ vres' = vres \o <<o2.res, o1.res>>
  /\ vpc' = vpc + 2
  /\ dev' = [kind |-> kind, at |-> vpc + 2]
  /\ UNCHANGED <<calls, pres, aborted, vsub, file, wr, flog>>

\* two adjacent absorptions of the prover, not the same call, swapped
VerifierSwap ==
  /\ CanVary({"append_protocol_name", "append_scalar", "append_point", "append_slice"})
  /\ vpc + 2 <= Len(calls)
  /\ IsAbsorb(calls[vpc + 2])
  /\ calls[vpc + 2] # calls[vpc + 1]
  /\ VerifierSwapsNext("swap")

\* a challenge the prover requested after an absorption requested before it
VerifierEarlyChallenge ==
  /\ CanVary({"append_protocol_name", "append_scalar", "append_point", "append_slice"})
  /\ vpc + 2 <= Len(calls)
  /\ ~IsAbsorb(calls[vpc + 2])
  /\ VerifierSwapsNext("early")

\* a slice of the prover appended as two slices: its first k items, then the rest
VerifierResplit ==
  /\ CanVary({"append_slice"})
  /\ \E k \in 0..Len(NextCall.arg) :
       LET r1 == append_to_transcript_slice(tr["verifier"], NextCall.label,
                                            SubSeq(NextCall.arg, 1, k))
           r2 == append_to_transcript_slice(r1.t, NextCall.label,
                                            SubSeq(NextCall.arg, k + 1, Len(NextCall.arg)))
       IN tr' = [tr EXCEPT !["verifier"] = r2.t]
  /\ vres' = Append(vres, Unit)
  /\ vpc' = vpc + 1
  /\ dev' = [kind |-> "resplit", at |-> vpc + 1]
  /\ UNCHANGED <<calls, pres, aborted, oracle, vsub, file, wr, flog>>

\* a slice of the prover appended as a slice of all its items but the last,
\* then the last item as a single scalar
VerifierSplitScalar ==
  /\ CanVary({"append_slice"})
  /\ Len(NextCall.arg) > 0
  /\ LET n == Len(NextCall.arg)
         r1 == append_to_transcript_slice(tr["verifier"], NextCall.label,
                                          SubSeq(NextCall.arg, 1, n - 1))
         r2 == append_scalar(r1.t, NextCall.label, NextCall.arg[n])
     IN tr' = [tr EXCEPT !["verifier"] = r2.t]
  /\ vres' = Append(vres, Unit)
  /\ vpc' = vpc + 1
  /\ dev' = [kind |-> "split_scalar", at |-> vpc + 1]
  /\ UNCHANGED <<calls, pres, aborted, oracle, vsub, file, wr, flog>>

\* an empty slice of the prover not appended at all
VerifierSkipEmpty ==
  /\ CanVary({"append_slice"})
  /\ NextCall.arg = <<>>
  /\ vres' = Append(vres, Unit)
  /\ vpc' = vpc + 1
  /\ dev' = [kind |-> "skip_empty", at |-> vpc + 1]
  /\ UNCHANGED <<calls, pres, tr, aborted, oracle, vsub, file, wr, flog>>

\* a challenge_vector(label, 0) of the prover not requested at all: the verifier
\* takes the empty vector without calling
VerifierSkipZero ==
  /\ CanVary({"challenge_vector"})
  /\ NextCall.arg[1] = 0
  /\ vres' = Append(vres, VectorResult(<<>>))
  /\ vpc' = vpc + 1
  /\ dev' = [kind |-> "skip_zero", at |-> vpc + 1]
  /\ UNCHANGED <<calls, pres, tr, aborted, oracle, vsub, file, wr, flog>>

BindNext ==
  \/ ProverAppendProtocolName
  \/ ProverAppendScalar
  \/ ProverAppendPoint
  \/ ProverAppendSlice
  \/ ProverChallengeScalar
  \/ ProverChallengeVector
  \/ VerifierReplay
  \/ VerifierSubstitute
  \/ VerifierSwap
  \/ VerifierEarlyChallenge
  \/ VerifierResplit
  \/ VerifierSplitScalar
  \/ VerifierSkipEmpty
  \/ VerifierSkipZero

----------------------------------------------------------------------------
(* Proof container: canonical compressed encoding *)

\* a length is written as a little-endian u64
LE64(n) == LEBytes(n, 8)

\* the little-endian integer of a few bytes
RECURSIVE LEValue(_)
LEValue(bytes) ==
  IF bytes = <<>> THEN 0 ELSE Head(bytes) + 256 * LEValue(Tail(bytes))

RECURSIVE Concat(_)
Concat(ss) == IF ss = <<>> THEN <<>> ELSE Head(ss) \o Concat(Tail(ss))

\* struct Proof { proof, commitments }
Container(proof, commitments) == [proof |-> proof, commitments |-> commitments]
EmptyContainer == Container(<<>>, <<>>)

CommitmentPoints == {<<2, 0>>, <<5, 1>>}
Containers ==
  { Container(pr, cm) :
      pr \in UNION {[1..n -> ScalarValues] : n \in 0..MaxLen},
      cm \in UNION {[1..n -> CommitmentPoints] : n \in 0..MaxLen} }

\* every scalar and point of the container is well formed
Valid(p) ==
  /\ \A i \in 1..Len(p.proof) : p.proof[i] \in WellFormedScalars
  /\ \A i \in 1..Len(p.commitments) : p.commitments[i] \in GroupElements

\* (mutant) the fields written in the other order
serialize_steps_swapped(p) ==
  <<[ok |-> TRUE, bytes |-> LE64(Len(p.commitments))]>>
    \o [i \in 1..Len(p.commitments) |-> serialize_point(p.commitments[i])]
    \o <<[ok |-> TRUE, bytes |-> LE64(Len(p.proof))]>>
    \o [i \in 1..Len(p.proof) |-> serialize_scalar(p.proof[i])]

\* derive(CanonicalSerialize): the writes serialize_compressed makes, in order:
\* field proof (length, then each scalar), field commitments (length, then
\* each point); each is Ok(bytes) or Err
serialize_steps(p) ==
  <<[ok |-> TRUE, bytes |-> LE64(Len(p.proof))]>>
    \o [i \in 1..Len(p.proof) |-> serialize_scalar(p.proof[i])]
    \o <<[ok |-> TRUE, bytes |-> LE64(Len(p.commitments))]>>
    \o [i \in 1..Len(p.commitments) |-> serialize_point(p.commitments[i])]

\* serialize_compressed into a Vec: Ok(all the bytes) or Err
serialize_compressed(p) ==
  LET steps == serialize_steps(p) IN
  IF \A i \in 1..Len(steps) : steps[i].ok
  THEN [ok |-> TRUE, bytes |-> Concat([i \in 1..Len(steps) |-> steps[i].bytes])]
  ELSE [ok |-> FALSE, bytes |-> <<>>]

\* reading a length at pos: Err at the end of the stream; a length with a high
\* byte set is more than any stream here holds
read_len(data, pos) ==
  IF pos + 8 > Len(data) THEN [ok |-> FALSE, n |-> 0]
  ELSE IF \E i \in 3..8 : data[pos + i] # 0 THEN [ok |-> TRUE, n |-> Len(data) + 1]
  ELSE [ok |-> TRUE, n |-> data[pos + 1] + 256 * data[pos + 2]]

\* (mutant) an out-of-range scalar encoding reduced instead of rejected
deserialize_scalar_reduce(bytes) == [ok |-> TRUE, v |-> LEValue(bytes) % Order]

\* a scalar's encoding is valid when its value is below the order
deserialize_scalar(bytes) ==
  LET v == LEValue(bytes) IN
  IF v < Order THEN [ok |-> TRUE, v |-> v] ELSE [ok |-> FALSE, v |-> 0]

\* a compressed point is valid when x is on the curve and only the sign flag is set
deserialize_point(bytes) ==
  IF bytes[1] \in CurveXs /\ bytes[2] \in {0, SignFlag}
  THEN [ok |-> TRUE, v |-> <<bytes[1], bytes[2] \div SignFlag>>]
  ELSE [ok |-> FALSE, v |-> <<0, 0>>]

\* derive(CanonicalDeserialize): deserialize_compressed from a reader over data:
\* Ok(container) or Err; bytes after the container are not read
deserialize_compressed(data) ==
  LET n1 == read_len(data, 0)
      p1 == 8
      e1 == p1 + n1.n * ScalarBytes
  IN
  IF ~n1.ok \/ e1 > Len(data) THEN [ok |-> FALSE, p |-> EmptyContainer]
  ELSE
    LET ss == [i \in 1..n1.n |->
                deserialize_scalar(SubSeq(data, p1 + (i - 1) * ScalarBytes + 1,
                                                p1 + i * ScalarBytes))]
        n2 == read_len(data, e1)
        p2 == e1 + 8
        e2 == p2 + n2.n * 2
    IN
    IF (\E i \in 1..n1.n : ~ss[i].ok) \/ ~n2.ok \/ e2 > Len(data)
    THEN [ok |-> FALSE, p |-> EmptyContainer]
    ELSE
      LET gs == [i \in 1..n2.n |->
                  deserialize_point(SubSeq(data, p2 + (i - 1) * 2 + 1, p2 + i * 2))]
      IN
      IF \E i \in 1..n2.n : ~gs[i].ok THEN [ok |-> FALSE, p |-> EmptyContainer]
      ELSE [ok |-> TRUE,
            p |-> Container([i \in 1..n1.n |-> ss[i].v], [i \in 1..n2.n |-> gs[i].v])]

----------------------------------------------------------------------------
(* base64::encode: the standard alphabet, padded, on one line *)

PadChar == 61

\* the character of a six-bit value: A-Z, a-z, 0-9, + and /
Base64Char(i) ==
  IF i < 26 THEN 65 + i
  ELSE IF i < 52 THEN 97 + (i - 26)
  ELSE IF i < 62 THEN 48 + (i - 52)
  ELSE IF i = 62 THEN 43 ELSE 47

\* byte i of the input, or 0 after its end
ByteOrZero(bytes, i) == IF i <= Len(bytes) THEN bytes[i] ELSE 0

RECURSIVE Pow(_, _)
Pow(b, e) == IF e = 0 THEN 1 ELSE b * Pow(b, e - 1)

\* character k of the output: its group of three bytes gives four six-bit
\* values; a group with fewer than three bytes is padded
Base64At(bytes, k) ==
  LET j == (k - 1) \div 4
      pos == (k - 1) % 4
      have == IF Len(bytes) - 3 * j >= 3 THEN 3 ELSE Len(bytes) - 3 * j
      v == ByteOrZero(bytes, 3 * j + 1) * 65536
             + ByteOrZero(bytes, 3 * j + 2) * 256
             + ByteOrZero(bytes, 3 * j + 3)
  IN IF pos > have THEN PadChar ELSE Base64Char((v \div Pow(64, 3 - pos)) % 64)

\* (mutant) the encoding without the padding characters
base64_encode_nopad(bytes) ==
  [k \in 1..(4 * (Len(bytes) \div 3)
               + (IF Len(bytes) % 3 = 0 THEN 0 ELSE (Len(bytes) % 3) + 1))
     |-> Base64At(bytes, k)]

base64_encode(bytes) ==
  [k \in 1..(4 * ((Len(bytes) + 2) \div 3)) |-> Base64At(bytes, k)]

----------------------------------------------------------------------------
(* The file at the path *)

NoFile == [exists |-> FALSE, data |-> <<>>]

\* (mutant) the file opened for writing without truncating it
create_keep(f) == [exists |-> TRUE, data |-> f.data]

\* File::create: the file exists and is empty
create(f) == [exists |-> TRUE, data |-> <<>>]

\* (mutant) every write made at the start of the file
write_at_rewind(f, pos, bytes) ==
  [exists |-> TRUE, data |-> bytes \o SubSeq(f.data, Len(bytes) + 1, Len(f.data))]

\* (mutant) every write made at the end of the file
write_at_append(f, pos, bytes) == [exists |-> TRUE, data |-> f.data \o bytes]

\* a write of bytes at offset pos of an open file; a gap before pos reads as zeros
write_at(f, pos, bytes) ==
  LET old == f.data
      pre == IF Len(old) >= pos THEN SubSeq(old, 1, pos)
             ELSE old \o Zeros(pos - Len(old))
      post == SubSeq(old, pos + Len(bytes) + 1, Len(old))
  IN [exists |-> TRUE, data |-> pre \o bytes \o post]

\* what the file may hold before the first call: nothing, a short stray file,
\* or a longer file left by an earlier save
OldContainer ==
  Container([i \in 1..(MaxLen + 1) |-> 1], [i \in 1..(MaxLen + 1) |-> <<2, 0>>])
\* one scalar whose bytes are the order itself, and no point
BadScalarBytes == LE64(1) \o LEBytes(Order, ScalarBytes) \o LE64(0)
\* no scalar, and one point whose x is not on the curve
BadPointBytes == LE64(0) \o LE64(1) \o <<3, 0>>
OldFiles ==
  { NoFile,
    [exists |-> TRUE, data |-> <<7>>],
    [exists |-> TRUE, data |-> serialize_compressed(OldContainer).bytes \o <<9>>],
    [exists |-> TRUE, data |-> BadScalarBytes],
    [exists |-> TRUE, data |-> BadPointBytes] }

----------------------------------------------------------------------------
(* impl Proof: size, save_to_file, from_file *)

Writers == {1, 2}

Idle(p) == [pc |-> "idle", pos |-> 0, idx |-> 0, p |-> p, before |-> NoFile]

Returned(op, w, res, created, n, p) ==
  [op |-> op, who |-> w, res |-> res, created |-> created, n |-> n, p |-> p,
   str |-> <<>>]

FInit ==
  /\ file \in OldFiles
  /\ \E p \in Containers : wr = [w \in Writers |-> IF w = 1 THEN Idle(p) ELSE Idle(EmptyContainer)]
  /\ flog = <<>>

CanCall(w) == wr[w].pc = "idle" /\ Len(flog) < MaxFileOps

\* (mutant) the measured bytes also written to the file at the path
size_persisting(w) ==
  /\ CanCall(w)
  /\ LET buffer == serialize_compressed(wr[w].p) IN
       /\ flog' = Append(flog,
                   IF buffer.ok
                   THEN Returned("size", w, "ok", FALSE, Len(buffer.bytes), wr[w].p)
                   ELSE Returned("size", w, "encoding_error", FALSE, 0, wr[w].p))
       /\ file' = [exists |-> TRUE, data |-> buffer.bytes]
  /\ UNCHANGED wr

\* size(): the length of the encoding, or the encoding error
size(w) ==
  /\ CanCall(w)
  /\ LET buffer == serialize_compressed(wr[w].p) IN
       flog' = Append(flog,
                 IF buffer.ok
                 THEN Returned("size", w, "ok", FALSE, Len(buffer.bytes), wr[w].p)
                 ELSE Returned("size", w, "encoding_error", FALSE, 0, wr[w].p))
  /\ UNCHANGED <<file, wr>>

\* save_to_file, File::create(path)?: the file is created or truncated
save_create(w) ==
  /\ CanCall(w)
  /\ file' = create(file)
  /\ wr' = [wr EXCEPT ![w] = [pc |-> "open", pos |-> 0, idx |-> 1, p |-> @.p,
                              before |-> file]]
  /\ UNCHANGED flog

\* ... or File::create fails and the error is returned
save_create_fails(w) ==
  /\ CanCall(w)
  /\ flog' = Append(flog, Returned("save", w, "io_error", FALSE, 0, wr[w].p))
  /\ wr' = [wr EXCEPT ![w] = [@ EXCEPT !.before = file]]
  /\ UNCHANGED file

\* save_to_file, self.serialize_compressed(file)?: the next write to the file;
\* after the last one Ok(()) is returned
save_write(w) ==
  LET steps == serialize_steps(wr[w].p)
      step == steps[wr[w].idx]
  IN
  /\ wr[w].pc = "open"
  /\ step.ok
  /\ file' = write_at(file, wr[w].pos, step.bytes)
  /\ IF wr[w].idx = Len(steps)
     THEN /\ wr' = [wr EXCEPT ![w] = [@ EXCEPT !.pc = "idle"]]
          /\ flog' = Append(flog, Returned("save", w, "ok", TRUE, 0, wr[w].p))
     ELSE /\ wr' = [wr EXCEPT ![w] = [@ EXCEPT !.pos = @ + Len(step.bytes),
                                                !.idx = @ + 1]]
          /\ UNCHANGED flog

\* ... or the write fails and the error is returned
save_write_fails(w) ==
  /\ wr[w].pc = "open"
  /\ serialize_steps(wr[w].p)[wr[w].idx].ok
  /\ wr' = [wr EXCEPT ![w] = [@ EXCEPT !.pc = "idle"]]
  /\ flog' = Append(flog, Returned("save", w, "io_error", TRUE, 0, wr[w].p))
  /\ UNCHANGED file

\* ... or the next item cannot be encoded and the error is returned
save_encode_fails(w) ==
  /\ wr[w].pc = "open"
  /\ ~serialize_steps(wr[w].p)[wr[w].idx].ok
  /\ wr' = [wr EXCEPT ![w] = [@ EXCEPT !.pc = "idle"]]
  /\ flog' = Append(flog, Returned("save", w, "encoding_error", TRUE, 0, wr[w].p))
  /\ UNCHANGED file

\* from_file(path): File::open(path)?, then deserialize_compressed(file)?
from_file(w) ==
  /\ wr[w].pc = "idle"
  /\ LET got == deserialize_compressed(file.data) IN
       flog' = Append(flog,
                 IF ~file.exists
                 THEN Returned("from_file", w, "io_error", FALSE, 0, EmptyContainer)
                 ELSE IF got.ok
                 THEN Returned("from_file", w, "ok", FALSE, 0, got.p)
                 ELSE Returned("from_file", w, "decoding_error", FALSE, 0, EmptyContainer))
  /\ UNCHANGED <<file, wr>>

\* serialize_to_string(): the base64 text of the encoding, or the encoding error
serialize_to_string(w) ==
  /\ CanCall(w)
  /\ LET buffer == serialize_compressed(wr[w].p) IN
       flog' = Append(flog,
                 IF buffer.ok
                 THEN [Returned("serialize_to_string", w, "ok", FALSE, 0, wr[w].p)
                         EXCEPT !.str = base64_encode(buffer.bytes)]
                 ELSE Returned("serialize_to_string", w, "encoding_error", FALSE, 0,
                               wr[w].p))
  /\ UNCHANGED <<file, wr>>

\* one caller, one call after the other
Size == size(1) /\ UNCHANGED tvars
SaveCreate == save_create(1) /\ UNCHANGED tvars
SaveCreateFails == save_create_fails(1) /\ UNCHANGED tvars
SaveWrite == save_write(1) /\ UNCHANGED tvars
SaveWriteFails == save_write_fails(1) /\ UNCHANGED tvars
SaveEncodeFails == save_encode_fails(1) /\ UNCHANGED tvars
FromFile == CanCall(1) /\ from_file(1) /\ UNCHANGED tvars
SerializeToString == serialize_to_string(1) /\ UNCHANGED tvars

FNext ==
  \/ Size
  \/ SaveCreate
  \/ SaveCreateFails
  \/ SaveWrite
  \/ SaveWriteFails
  \/ SaveEncodeFails
  \/ FromFile
  \/ SerializeToString

----------------------------------------------------------------------------
(* Two callers saving to the same path at the same time *)

\* the containers the second caller saves
OtherContainers == {EmptyContainer, Container(<<2>>, << <<5, 1>> >>)}

\* caller w has not called save_to_file yet
NotSaved(w) == \A k \in 1..Len(flog) : flog[k].who # w

RaceInit ==
  /\ file \in {NoFile, [exists |-> TRUE, data |-> serialize_compressed(OldContainer).bytes \o <<9>>]}
  /\ \E p \in Containers, q \in OtherContainers :
       /\ Valid(p) /\ p # q
       /\ wr = [w \in Writers |-> IF w = 1 THEN Idle(p) ELSE Idle(q)]
  /\ flog = <<>>
  /\ TInit

RaceCreate == \E w \in Writers : NotSaved(w) /\ save_create(w) /\ UNCHANGED tvars
RaceCreateFails ==
  \E w \in Writers : NotSaved(w) /\ save_create_fails(w) /\ UNCHANGED tvars
RaceWrite == \E w \in Writers : save_write(w) /\ UNCHANGED tvars
RaceWriteFails == \E w \in Writers : save_write_fails(w) /\ UNCHANGED tvars

\* after both calls have returned, the file is read
RaceRead ==
  /\ Len(flog) = 2
  /\ \A w \in Writers : wr[w].pc = "idle"
  /\ from_file(1)
  /\ UNCHANGED tvars

RaceNext ==
  \/ RaceCreate
  \/ RaceCreateFails
  \/ RaceWrite
  \/ RaceWriteFails
  \/ RaceRead

RaceSpec == RaceInit /\ [][RaceNext]_vars

\* no container call is made while the transcripts run, and no transcript call
\* while the container calls run
FQuiet ==
  /\ file = NoFile
  /\ wr = [w \in Writers |-> Idle(EmptyContainer)]
  /\ flog = <<>>

FileInit == FInit /\ TInit

FileSpec == FileInit /\ [][FNext]_vars

Init == TInit /\ FQuiet

Spec == Init /\ [][TNext]_vars

BindSpec == Init /\ [][BindNext]_vars

----------------------------------------------------------------------------
(* Properties of the transcript *)

IsChallenge(c) == c.op \in {"challenge_scalar", "challenge_vector"}

\* the squeezes a call makes
SqueezesOf(c) ==
  CASE c.op = "challenge_scalar" -> 1
    [] c.op = "challenge_vector" -> c.arg[1]
    [] OTHER -> 0
RECURSIVE Squeezes(_)
Squeezes(cs) == IF cs = <<>> THEN 0 ELSE SqueezesOf(Head(cs)) + Squeezes(Tail(cs))

\* the verifier has replayed every call the prover has made
CaughtUp == vpc = Len(calls) /\ vsub = <<>>

\* C1 (determinism): a verifier that makes the prover's calls, same labels,
\* values, lengths and order, on a transcript of its own gets the prover's
\* result from every call, challenges included, and once it has made them all
\* its transcript is in the prover's state.
C1_Determinism ==
  dev = NoDev =>
    /\ vres = SubSeq(pres, 1, vpc)
    /\ CaughtUp => /\ tr["verifier"] = tr["prover"]
                   /\ aborted["verifier"] = aborted["prover"]

C1_Witness ==
  /\ dev = NoDev
  /\ CaughtUp
  /\ Len(calls) = 2
  /\ calls[1].op = "append_scalar"
  /\ calls[2].op = "challenge_scalar"
  /\ vres[2].v = <<1>>

\* C2: challenge_vector(label, n) against n calls of challenge_scalar(label)
\* from the same state: the i-th call returns element i of the vector, and
\* after the n calls the transcript is in the state challenge_vector left.
C2_VectorIsSequential ==
  dev.kind = "sequential" =>
    /\ vpc < dev.at => vsub = SubSeq(pres[dev.at].v, 1, Len(vsub))
    /\ vpc >= dev.at => vres = SubSeq(pres, 1, vpc)
    /\ CaughtUp => tr["verifier"] = tr["prover"]

C2_Witness ==
  /\ dev.kind = "sequential"
  /\ CaughtUp
  /\ vpc = dev.at
  /\ Len(pres[dev.at].v) = 2
  /\ pres[dev.at].v[1] # pres[dev.at].v[2]

\* C3 (vector framing): a slice absorbed through the vector append leaves a
\* state different from the one its items leave when each is absorbed by
\* append_scalar under the same label, and the two stay different under the
\* same later calls.
C3_VectorFraming ==
  dev.kind = "unframed" /\ CaughtUp => tr["verifier"] # tr["prover"]

C3_Witness ==
  /\ dev.kind = "unframed"
  /\ CaughtUp
  /\ Len(calls[dev.at].arg) = 2
  /\ calls[dev.at].arg[1] # calls[dev.at].arg[2]

\* the values of the challenges the verifier and the prover got from call k are
\* different, element by element
ChallengesDiffer(k) ==
  \A j \in 1..Len(pres[k].v) : vres[k].v[j] # pres[k].v[j]

\* C4 as claimed (label domain separation): after the same scalar or point was
\* appended under two different labels, the states differ and every challenge
\* requested afterwards with the same labels differs between the two.
C4_Original ==
  dev.kind = "relabel" /\ vres[dev.at] = Unit =>
    /\ CaughtUp => tr["verifier"] # tr["prover"]
    /\ \A k \in (dev.at + 1)..vpc : IsChallenge(calls[k]) => ChallengesDiffer(k)

\* C4 as amended: after the same well-formed scalar or point was appended under
\* two different labels the two transcripts are in different states, and they
\* stay in different states under the same later calls, so that every later
\* challenge is squeezed from a different state (the values squeezed are not
\* guaranteed to differ).
C4_LabelSeparation ==
  dev.kind = "relabel" /\ vres[dev.at] = Unit /\ CaughtUp =>
    tr["verifier"] # tr["prover"]

C4_Witness ==
  /\ dev.kind = "relabel"
  /\ CaughtUp
  /\ vres[dev.at] = Unit
  /\ calls[dev.at].op = "append_point"
  /\ vpc > dev.at
  /\ calls[vpc].op = "challenge_scalar"
  /\ vres[vpc] # pres[vpc]

\* the calls of cs that are append_protocol_name
RECURSIVE NameCalls(_)
NameCalls(cs) ==
  IF cs = <<>> THEN 0
  ELSE (IF Head(cs).op = "append_protocol_name" THEN 1 ELSE 0) + NameCalls(Tail(cs))

\* C5 as claimed (protocol name first): once anything was absorbed or squeezed,
\* the first call was append_protocol_name and it was made exactly once.
C5_Original ==
  calls # <<>> => calls[1].op = "append_protocol_name" /\ NameCalls(calls) = 1

\* C5 as amended: when append_protocol_name is the first call on a fresh
\* transcript, the name, under the label "protocol-name", is the first thing
\* in the transcript's state and stays there under every later call (the
\* transcript does not refuse the other calls before it, nor a second one).
C5_NameBinds ==
  \A i \in Inst :
    LET n == IF i = "prover" THEN Len(calls) ELSE vpc IN
    n >= 1 /\ calls[1].op = "append_protocol_name" =>
      /\ Len(tr[i]) >= 2
      /\ tr[i][1] = StrobeOp("meta_ad", PROTOCOL_NAME_LABEL \o LE32(Len(calls[1].arg)))
      /\ tr[i][2] = StrobeOp("ad", calls[1].arg)

C5_Witness ==
  /\ Len(calls) = 2
  /\ calls[1].op = "append_protocol_name"
  /\ calls[2].op = "challenge_scalar"
  /\ CaughtUp

\* the values of xs are pairwise different
PairwiseDistinct(xs) ==
  \A i, j \in 1..Len(xs) : i # j => xs[i] # xs[j]

\* C6 as claimed (challenge advancement): two consecutive challenge_scalar
\* calls with the same label return different values, and the values of a
\* challenge_vector are pairwise different.
C6_Original ==
  /\ \A k \in 1..(Len(calls) - 1) :
       /\ calls[k].op = "challenge_scalar"
       /\ calls[k + 1] = calls[k]
       => pres[k + 1] # pres[k]
  /\ \A k \in 1..Len(calls) :
       calls[k].op = "challenge_vector" => PairwiseDistinct(pres[k].v)

\* C6 as amended: every challenge_scalar call changes the transcript state, so
\* no two challenges of a run, those of one challenge_vector included, are
\* squeezed from the same state (their values are not guaranteed to differ).
C6_ChallengeAdvances ==
  dev.kind \in {"none", "sequential"} =>
    Cardinality({e.s : e \in oracle}) = Squeezes(calls)

C6_Witness ==
  /\ Len(calls) = 2
  /\ calls[1].op = "challenge_scalar"
  /\ calls[2] = calls[1]
  /\ pres[2] = pres[1]

\* C10 as claimed (no abort path): no call aborts the run.
C10_Original == \A i \in Inst : ~aborted[i]

\* call c is an append whose value cannot be encoded
EncodingFails(c) ==
  \/ c.op = "append_scalar" /\ c.arg[1] \notin WellFormedScalars
  \/ c.op = "append_point" /\ c.arg \notin GroupElements

\* C10 as amended: append_scalar and append_point return no result value; when
\* the encoding of the value fails the call panics and the run on that
\* transcript ends there: the failure is never passed over, and no call
\* follows it.
C10_EncodingFailureAborts ==
  /\ \A k \in 1..Len(calls) : EncodingFails(calls[k]) => pres[k] = Panic
  /\ \A k \in 1..Len(calls) : pres[k] = Panic => k = Len(calls)
  /\ \A k \in 1..vpc : vres[k] = Panic => k = vpc /\ aborted["verifier"]
  /\ aborted["prover"] <=> (calls # <<>> /\ pres[Len(calls)] = Panic)

C10_Witness ==
  /\ aborted["prover"]
  /\ Len(calls) = 2
  /\ calls[2].op = "append_scalar"

----------------------------------------------------------------------------
(* Properties of the proof container *)

\* the last call that returned
LastCall == flog[Len(flog)]

\* the bytes of container p, which is valid
Encoding(p) == serialize_compressed(p).bytes

\* call j is a save that returned Ok, and no save was started since
SaveStands(j) ==
  /\ flog[j].op = "save" /\ flog[j].res = "ok"
  /\ wr[flog[j].who].pc = "idle"
  /\ \A k \in (j + 1)..Len(flog) : flog[k].op # "save"

\* the bytes the writes of save_to_file put in the file before it returned
Written(w) ==
  LET steps == serialize_steps(wr[w].p) IN
  Concat([i \in 1..(wr[w].idx - 1) |-> steps[i].bytes])

\* C7: a from_file that follows a successful save_to_file of container p
\* returns Ok with a container equal to p in both fields, whatever the file
\* held before the save.
C7_RoundTrip ==
  \A i \in 1..(Len(flog) - 1) :
    (flog[i].op = "save" /\ flog[i].res = "ok" /\ flog[i + 1].op = "from_file")
      => /\ flog[i + 1].res = "ok"
         /\ flog[i + 1].p.proof = flog[i].p.proof
         /\ flog[i + 1].p.commitments = flog[i].p.commitments

\* a container with a scalar and a point was saved over a longer file and read back
C7_Witness ==
  /\ Len(flog) = 2
  /\ flog[1].op = "save" /\ flog[1].res = "ok"
  /\ flog[2].op = "from_file" /\ flog[2].res = "ok"
  /\ Len(flog[1].p.proof) > 0 /\ Len(flog[1].p.commitments) > 0
  /\ Len(wr[1].before.data) > Len(file.data)

\* C8: the integer a successful size() returns is the byte length of the file
\* that a successful save_to_file of the same container leaves at the path.
C8_SizeIsFileLength ==
  \A i, j \in 1..Len(flog) :
    (flog[i].op = "size" /\ flog[i].res = "ok" /\ SaveStands(j)
       /\ flog[i].who = flog[j].who)
      => flog[i].n = Len(file.data)

\* size() was called before a save that replaced a longer file
C8_Witness ==
  /\ Len(flog) = 2
  /\ flog[1].op = "size" /\ flog[1].res = "ok" /\ flog[1].n > 16
  /\ SaveStands(2)
  /\ Len(wr[1].before.data) > flog[1].n

\* C9 as stated: when save_to_file returns an error, the file is as it was
\* before the call.
C9_Original ==
  (Len(flog) > 0 /\ LastCall.op = "save" /\ LastCall.res # "ok"
     /\ wr[LastCall.who].pc = "idle")
    => file = wr[LastCall.who].before

\* C9: when save_to_file returns Ok the file is exactly the encoding of the
\* container; when File::create fails the file is as it was before the call;
\* when a later step fails the file exists and holds only the items written
\* before the failure, whatever it held before the call.
C9_SaveOutcome ==
  (Len(flog) > 0 /\ LastCall.op = "save" /\ wr[LastCall.who].pc = "idle")
    => LET w == LastCall.who IN
       /\ LastCall.res = "ok" => file.exists /\ file.data = Encoding(wr[w].p)
       /\ (LastCall.res # "ok" /\ ~LastCall.created) => file = wr[w].before
       /\ (LastCall.res # "ok" /\ LastCall.created)
            => /\ file.exists
               /\ file.data = Written(w)
               /\ wr[w].idx <= Len(serialize_steps(wr[w].p))

\* a write failed part-way: the file holds some items and its old content is gone
C9_Witness ==
  /\ Len(flog) > 0 /\ LastCall.op = "save" /\ LastCall.res = "io_error"
  /\ LastCall.created /\ wr[1].pc = "idle"
  /\ Len(file.data) > 8
  /\ wr[1].before.exists
  /\ file # wr[1].before

\* data is the beginning of the encoding of a valid container q, cut short
IsTruncated(data, q) ==
  /\ Valid(q)
  /\ Len(data) < Len(Encoding(q))
  /\ data = SubSeq(Encoding(q), 1, Len(data))

\* the step is the return of a call of op
Returns(op) == Len(flog') = Len(flog) + 1 /\ flog'[Len(flog')].op = op

\* C11: from_file returns the I/O error when the file is missing, and the
\* decoding error when the file is a truncated encoding, holds an out-of-range
\* scalar or holds a point that is not on the curve; an error carries no
\* container, and the call leaves the file as it was.
C11_MalformedRejected ==
  [][Returns("from_file") =>
       LET r == flog'[Len(flog')] IN
       /\ file' = file
       /\ r.res \in {"ok", "io_error", "decoding_error"}
       /\ ~file.exists => r.res = "io_error"
       /\ (file.exists /\ (\/ file.data \in {BadScalarBytes, BadPointBytes}
                           \/ IsTruncated(file.data, wr[r.who].p)
                           \/ IsTruncated(file.data, OldContainer)))
            => r.res = "decoding_error"
       /\ r.res # "ok" => r.p = EmptyContainer]_vars

\* from_file was called on a file whose scalar is out of range
C11_Witness ==
  /\ Len(flog) > 0 /\ LastCall.op = "from_file"
  /\ LastCall.res = "decoding_error"
  /\ file.data = BadScalarBytes

\* C12 as stated: from_file returns a container only when the whole content of
\* the file is exactly one valid encoding; a file of any other length is refused.
C12_Original ==
  (Len(flog) > 0 /\ LastCall.op = "from_file" /\ LastCall.res = "ok"
     /\ wr[LastCall.who].pc = "idle")
    => file.data = Encoding(LastCall.p)

\* from_file returned a container from a file that holds an encoding and one
\* more byte
C12_Witness ==
  /\ Len(flog) > 0 /\ LastCall.op = "from_file" /\ LastCall.res = "ok"
  /\ LastCall.p = OldContainer
  /\ file.data = Encoding(OldContainer) \o <<9>>

\* C13: a call of size(), whether it returns the length or the encoding
\* error, leaves the file and the container as they were.
C13_SizeIsPure ==
  [][Returns("size") => (file' = file /\ wr' = wr)]_vars

\* size() returned a length where no file exists, and the read made right
\* after it finds no file
C13_Witness ==
  /\ Len(flog) = 2
  /\ flog[1].op = "size" /\ flog[1].res = "ok" /\ flog[1].n > 16
  /\ flog[2].op = "from_file" /\ flog[2].res = "io_error"
  /\ ~file.exists

\* the six-bit value of a character of the alphabet
Base64Index(c) ==
  IF c >= 65 /\ c <= 90 THEN c - 65
  ELSE IF c >= 97 /\ c <= 122 THEN c - 97 + 26
  ELSE IF c >= 48 /\ c <= 57 THEN c - 48 + 52
  ELSE IF c = 43 THEN 62
  ELSE IF c = 47 THEN 63 ELSE 0

Base64Alphabet == (65..90) \cup (97..122) \cup (48..57) \cup {43, 47}

\* the bytes a padded base64 text stands for
Base64Decode(str) ==
  LET pads == Cardinality({k \in 1..Len(str) : str[k] = PadChar})
      n == 3 * (Len(str) \div 4) - pads
  IN [k \in 1..n |->
        LET j == (k - 1) \div 3
            pos == (k - 1) % 3
            v == Base64Index(str[4 * j + 1]) * 262144
                   + Base64Index(str[4 * j + 2]) * 4096
                   + Base64Index(str[4 * j + 3]) * 64
                   + Base64Index(str[4 * j + 4])
        IN (v \div Pow(256, 2 - pos)) % 256]

\* the text is standard padded base64 on one line
IsBase64(str) ==
  /\ Len(str) % 4 = 0
  /\ \A k \in 1..Len(str) :
       \/ str[k] \in Base64Alphabet
       \/ str[k] = PadChar /\ k > Len(str) - 2
            /\ \A m \in k..Len(str) : str[m] = PadChar

\* C14: the string a successful serialize_to_string() returns is standard
\* padded base64 on one line; decoded, it is the content of the file that a
\* successful save_to_file of the same container left, and its length is the
\* number a successful size() returned.
C14_StringIsBase64OfFile ==
  \A i \in 1..Len(flog) :
    (flog[i].op = "serialize_to_string" /\ flog[i].res = "ok")
      => /\ IsBase64(flog[i].str)
         /\ \A j \in 1..Len(flog) :
              /\ (SaveStands(j) /\ flog[j].who = flog[i].who)
                   => Base64Decode(flog[i].str) = file.data
              /\ (flog[j].op = "size" /\ flog[j].res = "ok"
                    /\ flog[j].who = flog[i].who)
                   => Len(Base64Decode(flog[i].str)) = flog[j].n

\* a container was saved over a longer file and then turned into a string that
\* ends in padding
C14_Witness ==
  /\ Len(flog) = 2
  /\ SaveStands(1)
  /\ flog[2].op = "serialize_to_string" /\ flog[2].res = "ok"
  /\ flog[2].str[Len(flog[2].str)] = PadChar
  /\ Len(wr[1].before.data) > Len(file.data)

\* both callers' save_to_file returned Ok and none is running
BothSaved ==
  /\ Len(flog) >= 2
  /\ flog[1].op = "save" /\ flog[1].res = "ok"
  /\ flog[2].op = "save" /\ flog[2].res = "ok"
  /\ flog[1].who # flog[2].who
  /\ \A w \in Writers : wr[w].pc = "idle"

\* C18: two save_to_file calls on the same path interleave without a lock.
\* When both have returned Ok, the file is no longer than the longer encoding
\* and each of its bytes is the byte that one of the two encodings has at that
\* place, or a zero left by a truncation; it need not be either encoding, and a
\* from_file made afterwards fails or returns a container that is not the one
\* saved by at least one of the two callers.
C18_RaceOutcome ==
  BothSaved =>
    LET e1 == Encoding(wr[1].p)
        e2 == Encoding(wr[2].p)
    IN
    /\ file.exists
    /\ Len(file.data) <= Max(Len(e1), Len(e2))
    /\ \A k \in 1..Len(file.data) :
         \/ k <= Len(e1) /\ file.data[k] = e1[k]
         \/ k <= Len(e2) /\ file.data[k] = e2[k]
         \/ file.data[k] = 0
    /\ Len(flog) = 3 =>
         \/ flog[3].res # "ok"
         \/ flog[3].p # wr[1].p
         \/ flog[3].p # wr[2].p

\* both calls returned Ok, the file is the encoding of neither container, and
\* from_file returned a container that neither caller saved
C18_Witness ==
  /\ BothSaved
  /\ file.data # Encoding(wr[1].p)
  /\ file.data # Encoding(wr[2].p)
  /\ Len(flog) = 3
  /\ flog[3].op = "from_file" /\ flog[3].res = "ok"
  /\ flog[3].p # wr[1].p /\ flog[3].p # wr[2].p

----------------------------------------------------------------------------
(* Properties of the transcript, continued *)

\* the little-endian integer of buf modulo the order, summed over the places
\* of its non-zero bytes
RECURSIVE WeightedSum(_, _)
WeightedSum(buf, places) ==
  IF places = {} THEN 0
  ELSE LET i == CHOOSE i \in places : TRUE IN
       (buf[i] * Pow256Mod(i - 1) + WeightedSum(buf, places \ {i})) % Order

LEIntegerModOrder(buf) == WeightedSum(buf, {i \in 1..Len(buf) : buf[i] # 0})

\* the step is a call of op by the prover
ProverMakes(op) == Len(calls') = Len(calls) + 1 /\ calls'[Len(calls')].op = op

C15_Original ==
  dev.kind = "substitute" =>
    /\ CaughtUp => tr["verifier"] # tr["prover"]
    /\ \A k \in (dev.at + 1)..vpc : IsChallenge(calls[k]) => ChallengesDiffer(k)

\* C15: after one absorption carried a different protocol name or a different
\* scalar, the two transcripts are in different states and stay in different
\* states under the same later calls, so that every later challenge is squeezed
\* from a different state; the values squeezed are not guaranteed to differ.
C15_ValueBinding ==
  (dev.kind = "substitute" /\ CaughtUp) => tr["verifier"] # tr["prover"]

\* another protocol name was absorbed, and the challenge requested next differs
C15_Witness ==
  /\ dev.kind = "substitute"
  /\ CaughtUp
  /\ Len(calls) = 2
  /\ calls[1].op = "append_protocol_name"
  /\ calls[2].op = "challenge_scalar"
  /\ vres[2] # pres[2]

\* what call c absorbs, as the stream it leaves on a new transcript
Frame(c) == (CHOOSE o \in Outcomes({}, <<>>, c) : TRUE).t

\* C16 as stated: after two adjacent absorptions that are not the same call
\* were swapped, or a challenge was requested before the absorption it
\* followed, the states differ and the challenges differ.
C16_Original ==
  dev.kind \in {"swap", "early"} =>
    /\ CaughtUp => tr["verifier"] # tr["prover"]
    /\ \A k \in dev.at..vpc : IsChallenge(calls[k]) => ChallengesDiffer(k)

\* the states differ after a swap of two absorptions that absorb different
\* frames, and after a challenge of at least one scalar was moved before the
\* absorption it followed
OrderBinds ==
  /\ (dev.kind = "swap" /\ CaughtUp
        /\ Frame(calls[dev.at - 1]) # Frame(calls[dev.at]))
       => tr["verifier"] # tr["prover"]
  /\ (dev.kind = "swap" /\ CaughtUp
        /\ Frame(calls[dev.at - 1]) = Frame(calls[dev.at]))
       => tr["verifier"] = tr["prover"]
  /\ (dev.kind = "early" /\ CaughtUp /\ SqueezesOf(calls[dev.at]) > 0)
       => tr["verifier"] # tr["prover"]
  /\ (dev.kind = "early" /\ CaughtUp /\ SqueezesOf(calls[dev.at]) = 0)
       => tr["verifier"] = tr["prover"]

\* C16: swapping two adjacent absorptions changes the state exactly when the
\* two absorb different labels or bytes (a scalar and a point with the same
\* bytes under one label are the same absorption); moving a challenge before
\* the absorption it followed changes the state exactly when it squeezes at
\* least one scalar; the values of the challenges are not guaranteed to differ;
\* and no call changes the result of a call made before it.
C16_OrderBinding ==
  [][/\ SubSeq(pres', 1, Len(pres)) = pres
     /\ SubSeq(vres', 1, Len(vres)) = vres
     /\ OrderBinds']_vars

\* two scalars of different values under one label were absorbed in the other order
C16_Witness ==
  /\ dev.kind = "swap"
  /\ CaughtUp
  /\ calls[1].op = "append_scalar" /\ calls[2].op = "append_scalar"
  /\ calls[1].label = calls[2].label
  /\ calls[1].arg # calls[2].arg
  /\ tr["verifier"] # tr["prover"]

\* C17: a slice appended in one vector append, against the same items under
\* the same label appended as two slices, as a shorter slice and a single
\* scalar, or (an empty slice) not at all: the states differ; and no scalar's
\* bytes are the bytes of a delimiter.
C17_NoResegmentation ==
  /\ (dev.kind \in {"resplit", "split_scalar", "skip_empty"} /\ CaughtUp)
       => tr["verifier"] # tr["prover"]
  /\ \A x \in WellFormedScalars :
       serialize_scalar(x).bytes \notin {BEGIN_APPEND_VECTOR, END_APPEND_VECTOR}

\* a slice of two items was appended by the verifier as two slices
C17_Witness ==
  /\ dev.kind = "resplit"
  /\ CaughtUp
  /\ Len(calls[dev.at].arg) = 2
  /\ Len(tr["verifier"]) = Len(tr["prover"]) + 4

\* C20: challenge_vector(label, 0) returns the empty vector and leaves the
\* transcript as it was; a verifier that does not make the call gets the
\* prover's result from every other call and ends in the prover's state.
C20_ZeroLengthIsNoOp ==
  [][/\ (ProverMakes("challenge_vector") /\ calls'[Len(calls')].arg[1] = 0)
          => /\ tr' = tr
             /\ oracle' = oracle
             /\ pres'[Len(pres')] = VectorResult(<<>>)
     /\ dev'.kind = "skip_zero"
          => /\ vres' = SubSeq(pres', 1, vpc')
             /\ (vpc' = Len(calls') => tr'["verifier"] = tr'["prover"])]_vars

\* the verifier left out an empty challenge vector and then got the prover's
\* challenge
C20_Witness ==
  /\ dev.kind = "skip_zero"
  /\ CaughtUp
  /\ Len(calls) = 2
  /\ calls[1] = Call("challenge_vector", <<120>>, <<0>>)
  /\ calls[2].op = "challenge_scalar"
  /\ vres[2] = pres[2]

====
